---- MODULE Spec2Model ----
(***************************************************************************)
(* Model of dashboard.py: the entity classes Pruefungsleistung, Modul,     *)
(* Semester and Studiengang, the metrics of Studiengang and                *)
(* DashboardService, and PersistenceService (saveData / loadData).         *)
(*                                                                         *)
(* Python values are tagged records, so that None, numbers, strings,       *)
(* lists and dicts can meet in one field.  Grades are counted in tenths    *)
(* (2.3 is 23); a quotient is the pair of its numerator and denominator.   *)
(* Modul and Semester objects live in heaps and are referred to by their   *)
(* index, which is the object's identity: Modul defines no __eq__, so      *)
(* list.remove compares by identity.                                       *)
(***************************************************************************)
EXTENDS Integers, Sequences, FiniteSets, TLC

VARIABLES
    heapModul,      \* the Modul objects constructed so far
    heapSemester,   \* the Semester objects constructed so far
    stg,            \* the Studiengang object of the session
    datei,          \* the resource saveData writes and loadData reads
    ret             \* the last call: its name, what it raised, what it returned

vars == <<heapModul, heapSemester, stg, datei, ret>>

\* ------------------------------------------------------------------ bounds

\* Modul objects and Semester objects a session creates, attempts per Modul,
\* and Modul objects of a Studiengang that is built before the session starts.
MaxModul == 2
MaxSemester == 2
MaxPruef == 2
MaxGebaut == 3

\* ----------------------------------------------------------- Python values

PyNone == [t |-> "NoneType"]
PyNum(n) == [t |-> "number", v |-> n]
PyStr(s) == [t |-> "str", v |-> s]
PyList(s) == [t |-> "list", v |-> s]
PyDict(d) == [t |-> "dict", v |-> d]

\* A call ends by returning a value or by raising an exception.
NoExc == "-"
Return(v) == [exc |-> NoExc, val |-> v]
Raise(e) == [exc |-> e, val |-> PyNone]

\* The first exception of a sequence of results, evaluated left to right.
FirstRaised(rs) ==
    LET bad == {i \in 1..Len(rs) : rs[i].exc # NoExc}
    IN  rs[CHOOSE i \in bad : \A j \in bad : i <= j]

AnyRaised(rs) == \E i \in 1..Len(rs) : rs[i].exc # NoExc

Values(rs) == [i \in 1..Len(rs) |-> rs[i].val]

\* data[key]
Subscript(data, key) ==
    IF data.t = "dict"
    THEN IF key \in DOMAIN data.v THEN Return(data.v[key]) ELSE Raise("KeyError")
    ELSE Raise("TypeError")

\* data.get(key, default)
DictGet(data, key, default) ==
    IF data.t = "dict"
    THEN Return(IF key \in DOMAIN data.v THEN data.v[key] ELSE default)
    ELSE Raise("AttributeError")

\* for x in v: the items a comprehension walks through
Iterate(v) ==
    CASE v.t = "list" -> Return(v.v)
      [] v.t = "dict" -> Return([i \in 1..Cardinality(DOMAIN v.v) |-> PyStr(<<"k">>)])
      [] v.t = "str"  -> Return([i \in 1..Len(v.v) |-> PyStr(<<v.v[i]>>)])
      [] OTHER        -> Raise("TypeError")

\* ---------------------------------------------------------------- str.lower

UpperChars == <<"A", "B", "C", "D", "E", "F", "G", "H", "I", "J", "K", "L", "M",
                "N", "O", "P", "Q", "R", "S", "T", "U", "V", "W", "X", "Y", "Z">>
LowerChars == <<"a", "b", "c", "d", "e", "f", "g", "h", "i", "j", "k", "l", "m",
                "n", "o", "p", "q", "r", "s", "t", "u", "v", "w", "x", "y", "z">>

LowerChar(c) ==
    IF \E i \in 1..Len(UpperChars) : UpperChars[i] = c
    THEN LowerChars[CHOOSE i \in 1..Len(UpperChars) : UpperChars[i] = c]
    ELSE c

UpperChar(c) ==
    IF \E i \in 1..Len(LowerChars) : LowerChars[i] = c
    THEN UpperChars[CHOOSE i \in 1..Len(LowerChars) : LowerChars[i] = c]
    ELSE c

\* StrLower as it would be if the call to lower() were left out.
StrLower_Unchanged(s) ==
    IF s.t = "str" THEN Return(s) ELSE Raise("AttributeError")

\* status.lower(): only a str has the method
StrLower(s) ==
    IF s.t = "str"
    THEN Return(PyStr([i \in 1..Len(s.v) |-> LowerChar(s.v[i])]))
    ELSE Raise("AttributeError")

\* The literal "abgeschlossen" of getFortschrittECTS.
Abgeschlossen == <<"a", "b", "g", "e", "s", "c", "h", "l", "o", "s", "s", "e", "n">>

\* ------------------------------------------------------- Pruefungsleistung

Pruefungsleistung(note, versuch) ==
    [cls |-> "Pruefungsleistung", note |-> note, versuch |-> versuch]

Pruefungsleistung_to_dict(p) ==
    PyDict([note |-> p.note, versuch |-> p.versuch])

Pruefungsleistung_from_dict(data) ==
    LET n == Subscript(data, "note")
        v == Subscript(data, "versuch")
    IN  IF n.exc # NoExc THEN n
        ELSE IF v.exc # NoExc THEN v
        ELSE Return(Pruefungsleistung(n.val, v.val))

\* -------------------------------------------------------------------- Modul

Modul(modulName, ects, status, note) ==
    [cls |-> "Modul", modulName |-> modulName, ects |-> ects, status |-> status,
     note |-> note, pruefungen |-> <<>>]

\* addPruefungsleistung as it would be if the better (smaller) note were kept.
Modul_addPruefungsleistung_Beste(self, p) ==
    [self EXCEPT !.pruefungen = Append(self.pruefungen, p),
                 !.note = IF self.note # PyNone /\ self.note.v < p.note.v
                          THEN self.note ELSE p.note]

\* addPruefungsleistung as it would be without `self.note = p.note`.
Modul_addPruefungsleistung_NurAnhaengen(self, p) ==
    [self EXCEPT !.pruefungen = Append(self.pruefungen, p)]

\* The Modul object after self.addPruefungsleistung(p).
Modul_addPruefungsleistung(self, p) ==
    [self EXCEPT !.pruefungen = Append(self.pruefungen, p), !.note = p.note]

Modul_getAktuelleNote(self) == self.note

Modul_to_dict(self) ==
    PyDict([modulName |-> self.modulName,
            ects |-> self.ects,
            status |-> self.status,
            note |-> self.note,
            pruefungen |-> PyList([i \in 1..Len(self.pruefungen) |->
                                     Pruefungsleistung_to_dict(self.pruefungen[i])])])

\* Modul_from_dict as it would be without the line that restores pruefungen.
Modul_from_dict_OhnePruefungen(data) ==
    LET n == Subscript(data, "modulName")
        e == Subscript(data, "ects")
        s == Subscript(data, "status")
        g == DictGet(data, "note", PyNone)
    IN  IF n.exc # NoExc THEN n
        ELSE IF e.exc # NoExc THEN e
        ELSE IF s.exc # NoExc THEN s
        ELSE IF g.exc # NoExc THEN g
        ELSE Return(Modul(n.val, e.val, s.val, g.val))

Modul_from_dict(data) ==
    LET n  == Subscript(data, "modulName")
        e  == Subscript(data, "ects")
        s  == Subscript(data, "status")
        g  == DictGet(data, "note", PyNone)
        ps == DictGet(data, "pruefungen", PyList(<<>>))
    IN  IF n.exc # NoExc THEN n
        ELSE IF e.exc # NoExc THEN e
        ELSE IF s.exc # NoExc THEN s
        ELSE IF g.exc # NoExc THEN g
        ELSE IF ps.exc # NoExc THEN ps
        ELSE LET it == Iterate(ps.val)
             IN  IF it.exc # NoExc THEN it
                 ELSE LET rs == [i \in 1..Len(it.val) |->
                                   Pruefungsleistung_from_dict(it.val[i])]
                      IN  IF AnyRaised(rs) THEN FirstRaised(rs)
                          ELSE Return([Modul(n.val, e.val, s.val, g.val)
                                         EXCEPT !.pruefungen = Values(rs)])

\* ----------------------------------------------------------------- Semester

\* A Semester object.  In heapSemester its module list holds the identities
\* of Modul objects; in a tree rebuilt by from_dict it holds the new Modul
\* objects themselves.
Semester(semesterNummer, startDatum, endDatum) ==
    [cls |-> "Semester", semesterNummer |-> semesterNummer,
     startDatum |-> startDatum, endDatum |-> endDatum, module |-> <<>>]

\* self.module after self.module.append(m)
Semester_addModul(self, m) ==
    [self EXCEPT !.module = Append(self.module, m)]

\* list.remove(m) as it would be if Modul objects compared by their fields.
ListRemove_Equal(list, m) ==
    IF \E i \in 1..Len(list) : heapModul[list[i]] = heapModul[m]
    THEN LET k == CHOOSE i \in 1..Len(list) :
                    /\ heapModul[list[i]] = heapModul[m]
                    /\ \A j \in 1..(i - 1) : heapModul[list[j]] # heapModul[m]
         IN  Return([i \in 1..(Len(list) - 1) |->
                       IF i < k THEN list[i] ELSE list[i + 1]])
    ELSE Raise("ValueError")

\* list.remove(m): the first entry equal to m goes, ValueError when none is.
ListRemove(list, m) ==
    IF \E i \in 1..Len(list) : list[i] = m
    THEN LET k == CHOOSE i \in 1..Len(list) :
                    /\ list[i] = m
                    /\ \A j \in 1..(i - 1) : list[j] # m
         IN  Return([i \in 1..(Len(list) - 1) |->
                       IF i < k THEN list[i] ELSE list[i + 1]])
    ELSE Raise("ValueError")

Semester_removeModul(self, m) ==
    LET r == ListRemove(self.module, m)
    IN  IF r.exc # NoExc THEN r
        ELSE Return([self EXCEPT !.module = r.val])

Semester_to_dict(self) ==
    PyDict([semesterNummer |-> self.semesterNummer,
            startDatum |-> self.startDatum,
            endDatum |-> self.endDatum,
            module |-> PyList([i \in 1..Len(self.module) |->
                                 Modul_to_dict(heapModul[self.module[i]])])])

\* Semester_from_dict as it would be with data["startDatum"] and
\* data["endDatum"] for data.get(...).
Semester_from_dict_Strict(data) ==
    LET n  == Subscript(data, "semesterNummer")
        a  == Subscript(data, "startDatum")
        e  == Subscript(data, "endDatum")
        ms == DictGet(data, "module", PyList(<<>>))
    IN  IF n.exc # NoExc THEN n
        ELSE IF a.exc # NoExc THEN a
        ELSE IF e.exc # NoExc THEN e
        ELSE IF ms.exc # NoExc THEN ms
        ELSE LET it == Iterate(ms.val)
             IN  IF it.exc # NoExc THEN it
                 ELSE LET rs == [i \in 1..Len(it.val) |-> Modul_from_dict(it.val[i])]
                      IN  IF AnyRaised(rs) THEN FirstRaised(rs)
                          ELSE Return([Semester(n.val, a.val, e.val)
                                         EXCEPT !.module = Values(rs)])

Semester_from_dict(data) ==
    LET n  == Subscript(data, "semesterNummer")
        a  == DictGet(data, "startDatum", PyNone)
        e  == DictGet(data, "endDatum", PyNone)
        ms == DictGet(data, "module", PyList(<<>>))
    IN  IF n.exc # NoExc THEN n
        ELSE IF a.exc # NoExc THEN a
        ELSE IF e.exc # NoExc THEN e
        ELSE IF ms.exc # NoExc THEN ms
        ELSE LET it == Iterate(ms.val)
             IN  IF it.exc # NoExc THEN it
                 ELSE LET rs == [i \in 1..Len(it.val) |-> Modul_from_dict(it.val[i])]
                      IN  IF AnyRaised(rs) THEN FirstRaised(rs)
                          ELSE Return([Semester(n.val, a.val, e.val)
                                         EXCEPT !.module = Values(rs)])

\* -------------------------------------------------------------- Studiengang

Studiengang(name, gesamtECTS) ==
    [cls |-> "Studiengang", name |-> name, gesamtECTS |-> gesamtECTS,
     semester |-> <<>>]

Studiengang_addSemester(self, s) ==
    [self EXCEPT !.semester = Append(self.semester, s)]

\* The Modul objects the two nested loops of the metrics visit, in order.
RECURSIVE Besucht(_)
Besucht(sems) ==
    IF sems = <<>> THEN <<>>
    ELSE LET ids == heapSemester[Head(sems)].module
         IN  [i \in 1..Len(ids) |-> heapModul[ids[i]]] \o Besucht(Tail(sems))

\* Noten as it would be with `if mod.note:` for `if mod.note is not None:`.
RECURSIVE Noten_Truthy(_)
Noten_Truthy(mods) ==
    IF mods = <<>> THEN <<>>
    ELSE IF Head(mods).note # PyNone /\ Head(mods).note # PyNum(0)
         THEN <<Head(mods).note>> \o Noten_Truthy(Tail(mods))
         ELSE Noten_Truthy(Tail(mods))

\* noten: the grades collected by the loops of getNotendurchschnitt
RECURSIVE Noten(_)
Noten(mods) ==
    IF mods = <<>> THEN <<>>
    ELSE IF Head(mods).note # PyNone
         THEN <<Head(mods).note>> \o Noten(Tail(mods))
         ELSE Noten(Tail(mods))

RECURSIVE PySum(_)
PySum(nums) == IF nums = <<>> THEN 0 ELSE Head(nums).v + PySum(Tail(nums))

\* a / b
Quotient(a, b) == [t |-> "float", num |-> a, den |-> b]
TrueDiv(a, b) == IF b = 0 THEN Raise("ZeroDivisionError") ELSE Return(Quotient(a, b))

\* 0.0
Zero == Quotient(0, 1)

Studiengang_getNotendurchschnitt(self) ==
    LET noten == Noten(Besucht(self.semester))
    IN  IF noten # <<>> THEN TrueDiv(PySum(noten), Len(noten)) ELSE Return(Zero)

\* earned: the loops of getFortschrittECTS over the Modul objects still to visit
RECURSIVE Earned(_, _)
Earned(mods, earned) ==
    IF mods = <<>> THEN Return(earned)
    ELSE LET low == StrLower(Head(mods).status)
         IN  IF low.exc # NoExc THEN low
             ELSE IF low.val = PyStr(Abgeschlossen)
                  THEN Earned(Tail(mods), earned + Head(mods).ects.v)
                  ELSE Earned(Tail(mods), earned)

Studiengang_getFortschrittECTS(self) ==
    LET r == Earned(Besucht(self.semester), 0)
    IN  IF r.exc # NoExc THEN r ELSE Return(PyNum(r.val))

Studiengang_to_dict(self) ==
    PyDict([name |-> self.name,
            gesamtECTS |-> self.gesamtECTS,
            semester |-> PyList([i \in 1..Len(self.semester) |->
                                   Semester_to_dict(heapSemester[self.semester[i]])])])

Studiengang_from_dict(data) ==
    LET n  == Subscript(data, "name")
        g  == Subscript(data, "gesamtECTS")
        ss == DictGet(data, "semester", PyList(<<>>))
    IN  IF n.exc # NoExc THEN n
        ELSE IF g.exc # NoExc THEN g
        ELSE IF ss.exc # NoExc THEN ss
        ELSE LET it == Iterate(ss.val)
             IN  IF it.exc # NoExc THEN it
                 ELSE LET rs == [i \in 1..Len(it.val) |-> Semester_from_dict(it.val[i])]
                      IN  IF AnyRaised(rs) THEN FirstRaised(rs)
                          ELSE Return([Studiengang(n.val, g.val)
                                         EXCEPT !.semester = Values(rs)])

\* --------------------------------------------------------- DashboardService

\* ProgressPercentage as it would be without the test of gesamtECTS.
ProgressPercentage_Unguarded(earned_ects, gesamtECTS) ==
    LET q == TrueDiv(earned_ects, gesamtECTS)
    IN  IF q.exc # NoExc THEN q
        ELSE Return(Quotient(q.val.num * 100, q.val.den))

\* progress_percentage of displayDashboard
ProgressPercentage(earned_ects, gesamtECTS) ==
    IF gesamtECTS > 0
    THEN LET q == TrueDiv(earned_ects, gesamtECTS)
         IN  IF q.exc # NoExc THEN q
             ELSE Return(Quotient(q.val.num * 100, q.val.den))
    ELSE Return(PyNum(0))

\* What displayDashboard computes for its first lines: the earned credits,
\* the percentage and the grade average.
DashboardService_displayDashboard(s) ==
    LET e == Studiengang_getFortschrittECTS(s)
    IN  IF e.exc # NoExc THEN e
        ELSE LET p == ProgressPercentage(e.val.v, s.gesamtECTS.v)
                 a == Studiengang_getNotendurchschnitt(s)
             IN  IF p.exc # NoExc THEN p
                 ELSE IF a.exc # NoExc THEN a
                 ELSE Return([earned_ects |-> e.val,
                              progress_percentage |-> p.val,
                              notendurchschnitt |-> a.val])

\* --------------------------------------------------------------------- json

\* The text of a JSON document, as its syntax tree; JsonInvalid is any text
\* json.load cannot parse (an empty or a cut-off file among them).
JsonInvalid == [j |-> "invalid"]
JsonNull == [j |-> "null"]
JsonNumber(n) == [j |-> "number", n |-> n]
JsonString(s) == [j |-> "string", s |-> s]
JsonArray(items) == [j |-> "array", items |-> items]
JsonObject(members) == [j |-> "object", members |-> members]

\* json.dump
RECURSIVE JsonDump(_)
JsonDump(v) ==
    CASE v.t = "NoneType" -> JsonNull
      [] v.t = "number"   -> JsonNumber(v.v)
      [] v.t = "str"      -> JsonString(v.v)
      [] v.t = "list"     -> JsonArray([i \in 1..Len(v.v) |-> JsonDump(v.v[i])])
      [] v.t = "dict"     -> JsonObject([k \in DOMAIN v.v |-> JsonDump(v.v[k])])

RECURSIVE JsonDecode(_)
JsonDecode(x) ==
    CASE x.j = "null"   -> PyNone
      [] x.j = "number" -> PyNum(x.n)
      [] x.j = "string" -> PyStr(x.s)
      [] x.j = "array"  -> PyList([i \in 1..Len(x.items) |-> JsonDecode(x.items[i])])
      [] x.j = "object" -> PyDict([k \in DOMAIN x.members |-> JsonDecode(x.members[k])])

\* json.load
JsonLoad(text) ==
    IF text.j = "invalid" THEN Raise("JSONDecodeError") ELSE Return(JsonDecode(text))

\* ------------------------------------------------------- PersistenceService

\* The resource: absent, present but not to be opened, or present with a text.
DateiFehlt == [mode |-> "missing", text |-> JsonInvalid]
DateiGesperrt == [mode |-> "locked", text |-> JsonInvalid]
Datei(text) == [mode |-> "ok", text |-> text]

\* open(datei, "r")
OpenRead(f) ==
    CASE f.mode = "missing" -> Raise("FileNotFoundError")
      [] f.mode = "locked"  -> Raise("PermissionError")
      [] OTHER              -> Return(f.text)

\* open(datei, "w"): the resource exists and is empty once it is open
OpenWrite(f) ==
    IF f.mode = "locked" THEN Raise("PermissionError") ELSE Return(Datei(JsonInvalid))

\* The classes `except Exception` catches: all that are raised here.
ExceptionClasses ==
    {"KeyError", "TypeError", "AttributeError", "ValueError", "ZeroDivisionError",
     "JSONDecodeError", "FileNotFoundError", "PermissionError", "OSError"}

\* The handler as it would be with `except OSError`.
ExceptOSError(e) == e \in {"FileNotFoundError", "PermissionError", "OSError"}

ExceptException(e) == e \in ExceptionClasses

\* The try block of saveData; io is whether the device takes the whole text.
SaveTry(f, s, io) ==
    LET o == OpenWrite(f)
    IN  IF o.exc # NoExc THEN [datei |-> f, res |-> o]
        ELSE IF io = "ENOSPC" THEN [datei |-> o.val, res |-> Raise("OSError")]
        ELSE [datei |-> Datei(JsonDump(Studiengang_to_dict(s))), res |-> Return(PyNone)]

PersistenceService_saveData(f, s, io) ==
    LET b == SaveTry(f, s, io)
    IN  IF b.res.exc = NoExc
        THEN [datei |-> b.datei, res |-> Return(PyNone), out |-> "erfolgreich gespeichert"]
        ELSE IF ExceptException(b.res.exc)
        THEN [datei |-> b.datei, res |-> Return(PyNone), out |-> "Fehler beim Speichern"]
        ELSE [datei |-> b.datei, res |-> b.res, out |-> ""]

\* The try block of loadData.
LoadTry(f) ==
    LET o == OpenRead(f)
    IN  IF o.exc # NoExc THEN o
        ELSE LET data == JsonLoad(o.val)
             IN  IF data.exc # NoExc THEN data ELSE Studiengang_from_dict(data.val)

PersistenceService_loadData(f) ==
    LET b == LoadTry(f)
    IN  IF b.exc = NoExc THEN [res |-> b, out |-> "erfolgreich geladen"]
        ELSE IF ExceptException(b.exc)
        THEN [res |-> Return(PyNone), out |-> "Fehler beim Laden"]
        ELSE [res |-> b, out |-> ""]

\* ------------------------------------------------------------------ actions

Out(msg) == [msg |-> msg]
Ret(op, r, out) == [op |-> op, exc |-> r.exc, val |-> r.val, out |-> out]
Idle == Ret("-", Return(PyNone), Out(""))

\* m = Modul(modulName, ects, status, note)
NewModul(a) ==
    /\ Len(heapModul) < MaxModul
    /\ heapModul' = Append(heapModul, Modul(a.modulName, a.ects, a.status, a.note))
    /\ ret' = Ret("Modul", Return(PyNone), Out(""))
    /\ UNCHANGED <<heapSemester, stg, datei>>

\* heapModul[m].addPruefungsleistung(p)
AddPruefungsleistung(m, p) ==
    /\ m \in 1..Len(heapModul)
    /\ Len(heapModul[m].pruefungen) < MaxPruef
    /\ heapModul' = [heapModul EXCEPT ![m] = Modul_addPruefungsleistung(@, p)]
    /\ ret' = Ret("addPruefungsleistung", Return(PyNone), Out(""))
    /\ UNCHANGED <<heapSemester, stg, datei>>

\* m = Modul.from_dict(d)
ModulFromDict(d) ==
    LET r == Modul_from_dict(d)
    IN  /\ IF r.exc = NoExc
           THEN /\ Len(heapModul) < MaxModul
                /\ heapModul' = Append(heapModul, r.val)
                /\ ret' = Ret("Modul.from_dict", Return(PyNone), Out(""))
           ELSE /\ UNCHANGED heapModul
                /\ ret' = Ret("Modul.from_dict", r, Out(""))
        /\ UNCHANGED <<heapSemester, stg, datei>>

\* s = Semester(semesterNummer, startDatum, endDatum)
NewSemester(a) ==
    /\ Len(heapSemester) < MaxSemester
    /\ heapSemester' = Append(heapSemester,
                              Semester(a.semesterNummer, a.startDatum, a.endDatum))
    /\ ret' = Ret("Semester", Return(PyNone), Out(""))
    /\ UNCHANGED <<heapModul, stg, datei>>

\* heapSemester[s].addModul(heapModul[m])
AddModul(s, m) ==
    /\ s \in 1..Len(heapSemester)
    /\ m \in 1..Len(heapModul)
    /\ Len(heapSemester[s].module) < MaxModul
    /\ heapSemester' = [heapSemester EXCEPT ![s] = Semester_addModul(@, m)]
    /\ ret' = Ret("addModul", Return(PyNone), Out(""))
    /\ UNCHANGED <<heapModul, stg, datei>>

\* heapSemester[s].removeModul(heapModul[m])
RemoveModul(s, m) ==
    /\ s \in 1..Len(heapSemester)
    /\ m \in 1..Len(heapModul)
    /\ LET r == Semester_removeModul(heapSemester[s], m)
       IN  IF r.exc = NoExc
           THEN /\ heapSemester' = [heapSemester EXCEPT ![s] = r.val]
                /\ ret' = Ret("removeModul", Return(PyNone), Out(""))
           ELSE /\ UNCHANGED heapSemester
                /\ ret' = Ret("removeModul", r, Out(""))
    /\ UNCHANGED <<heapModul, stg, datei>>

\* stg.addSemester(heapSemester[s])
AddSemester(s) ==
    /\ s \in 1..Len(heapSemester)
    /\ Len(stg.semester) < MaxSemester
    /\ stg' = Studiengang_addSemester(stg, s)
    /\ ret' = Ret("addSemester", Return(PyNone), Out(""))
    /\ UNCHANGED <<heapModul, heapSemester, datei>>

\* stg.getNotendurchschnitt()
GetNotendurchschnitt ==
    /\ ret' = Ret("getNotendurchschnitt", Studiengang_getNotendurchschnitt(stg), Out(""))
    /\ UNCHANGED <<heapModul, heapSemester, stg, datei>>

\* stg.getFortschrittECTS()
GetFortschrittECTS ==
    /\ ret' = Ret("getFortschrittECTS", Studiengang_getFortschrittECTS(stg), Out(""))
    /\ UNCHANGED <<heapModul, heapSemester, stg, datei>>

\* DashboardService.displayDashboard(stg): returns None, prints the numbers
DisplayDashboard ==
    /\ LET r == DashboardService_displayDashboard(stg)
       IN  ret' = IF r.exc = NoExc
                  THEN Ret("displayDashboard", Return(PyNone), r.val)
                  ELSE Ret("displayDashboard", r, Out(""))
    /\ UNCHANGED <<heapModul, heapSemester, stg, datei>>

\* PersistenceService.saveData(datei, stg)
SaveData(io) ==
    /\ LET r == PersistenceService_saveData(datei, stg, io)
       IN  /\ datei' = r.datei
           /\ ret' = Ret("saveData", r.res, Out(r.out))
    /\ UNCHANGED <<heapModul, heapSemester, stg>>

\* PersistenceService.loadData(datei)
LoadData ==
    /\ LET r == PersistenceService_loadData(datei)
       IN  ret' = Ret("loadData", r.res, Out(r.out))
    /\ UNCHANGED <<heapModul, heapSemester, stg, datei>>

\* Something other than saveData changes the resource.
EnvWrite(f) ==
    /\ f # datei
    /\ datei' = f
    /\ ret' = Idle
    /\ UNCHANGED <<heapModul, heapSemester, stg>>

\* ------------------------------------------------------------------- inputs

\* Status strings, as the sequences of their characters.
StatusAbgeschlossen ==
    <<"A", "b", "g", "e", "s", "c", "h", "l", "o", "s", "s", "e", "n">>
StatusGROSS ==
    <<"A", "B", "G", "E", "S", "C", "H", "L", "O", "S", "S", "E", "N">>
StatusInBearbeitung ==
    <<"I", "n", " ", "B", "e", "a", "r", "b", "e", "i", "t", "u", "n", "g">>
StatusFast ==
    <<"a", "b", "g", "e", "s", "c", "h", "l", "o", "s", "s", "e", "n", " ">>

\* The arguments of the Modul constructor calls.
ArgMathe ==
    [modulName |-> PyStr("Mathe I"), ects |-> PyNum(8),
     status |-> PyStr(StatusAbgeschlossen), note |-> PyNum(23)]
ArgProgrammierung ==
    [modulName |-> PyStr("Programmierung"), ects |-> PyNum(10),
     status |-> PyStr(StatusInBearbeitung), note |-> PyNone]
ArgDatenbanken ==
    [modulName |-> PyStr("Datenbanken"), ects |-> PyNum(6),
     status |-> PyStr(StatusGROSS), note |-> PyNone]
ArgStatistik ==
    [modulName |-> PyStr("Statistik"), ects |-> PyNum(5),
     status |-> PyStr(StatusFast), note |-> PyNum(0)]
ArgOhneStatus ==
    [modulName |-> PyStr("Ethik"), ects |-> PyNum(5),
     status |-> PyNone, note |-> PyNone]

PruefArgs == {Pruefungsleistung(PyNum(23), PyNum(1)), Pruefungsleistung(PyNum(20), PyNum(2))}

\* The Semester constructor call for the i-th semester.
ArgSemester(i) ==
    CASE i = 1 -> [semesterNummer |-> PyNum(1), startDatum |-> PyStr("2023-10-01"),
                   endDatum |-> PyStr("2024-03-31")]
      [] i = 2 -> [semesterNummer |-> PyNum(2), startDatum |-> PyStr("2024-04-01"),
                   endDatum |-> PyNone]
      [] OTHER -> [semesterNummer |-> PyNum(i), startDatum |-> PyNone,
                   endDatum |-> PyNone]

\* Dicts handed to Modul.from_dict that no to_dict call of the session made.
DatenKonsistent ==
    PyDict([modulName |-> PyStr("Datenbanken"), ects |-> PyNum(6),
            status |-> PyStr(StatusAbgeschlossen), note |-> PyNum(20),
            pruefungen |-> PyList(<<PyDict([note |-> PyNum(20), versuch |-> PyNum(1)])>>)])
DatenAndereNote ==
    PyDict([modulName |-> PyStr("Datenbanken"), ects |-> PyNum(6),
            status |-> PyStr(StatusAbgeschlossen), note |-> PyNum(10),
            pruefungen |-> PyList(<<PyDict([note |-> PyNum(20), versuch |-> PyNum(1)])>>)])
DatenOhneNote ==
    PyDict([modulName |-> PyStr("Datenbanken"), ects |-> PyNum(6),
            status |-> PyStr(StatusAbgeschlossen),
            pruefungen |-> PyList(<<PyDict([note |-> PyNum(20), versuch |-> PyNum(1)])>>)])
DatenOhneStatus ==
    PyDict([modulName |-> PyStr("Datenbanken"), ects |-> PyNum(6), note |-> PyNum(20)])

ExternModulDaten == {DatenKonsistent, DatenAndereNote, DatenOhneNote, DatenOhneStatus}

\* ---------------------------------------------------------- initial states

\* main(): stg = Studiengang("Angewandte KI", 180), nothing else built yet.
Init ==
    /\ heapModul = <<>>
    /\ heapSemester = <<>>
    /\ stg = Studiengang(PyStr("Angewandte KI"), PyNum(180))
    /\ datei = DateiFehlt
    /\ ret = Idle

SeqsUpTo(S, n) == UNION {[1..k -> S] : k \in 0..n}

RECURSIVE Flat(_)
Flat(shape) == IF shape = <<>> THEN <<>> ELSE Head(shape) \o Flat(Tail(shape))

RECURSIVE Offset(_, _)
Offset(shape, i) == IF i <= 1 THEN 0 ELSE Len(shape[i - 1]) + Offset(shape, i - 1)

\* The shapes of k semesters that hold at most n Modul objects of T together.
RECURSIVE Shapes(_, _, _)
Shapes(T, k, n) ==
    IF k = 0 THEN {<<>>}
    ELSE UNION {{<<h>> \o t : t \in Shapes(T, k - 1, n - Len(h))} : h \in SeqsUpTo(T, n)}

\* The session after it has built a Studiengang of up to MaxSemester semesters
\* with up to MaxGebaut modules together: shape[i][j] is the j-th Modul object
\* added to the i-th Semester, and every object is added once.
Built(shape, gesamtECTS) ==
    /\ heapModul = Flat(shape)
    /\ heapSemester =
         [i \in 1..Len(shape) |->
            [Semester(ArgSemester(i).semesterNummer, ArgSemester(i).startDatum,
                      ArgSemester(i).endDatum)
               EXCEPT !.module = [j \in 1..Len(shape[i]) |-> Offset(shape, i) + j]]]
    /\ stg = [Studiengang(PyStr("Angewandte KI"), PyNum(gesamtECTS))
                EXCEPT !.semester = [i \in 1..Len(shape) |-> i]]
    /\ datei = DateiFehlt
    /\ ret = Idle

NewObj(a) == Modul(a.modulName, a.ects, a.status, a.note)

\* The Modul objects of the programs the metrics are computed for.
MetrikModule ==
    {Modul_addPruefungsleistung(NewObj(ArgMathe), Pruefungsleistung(PyNum(23), PyNum(1))),
     NewObj(ArgProgrammierung), NewObj(ArgDatenbanken), NewObj(ArgStatistik)}

GesamtECTS == {0, 180}

InitMetrik ==
    \E k \in 0..MaxSemester, g \in GesamtECTS :
        \E shape \in Shapes(MetrikModule, k, MaxGebaut) : Built(shape, g)

\* The Modul objects of the programs that are saved and loaded.
PersistModule ==
    {Modul_addPruefungsleistung(
         Modul_addPruefungsleistung(NewObj(ArgMathe),
                                    Pruefungsleistung(PyNum(23), PyNum(1))),
         Pruefungsleistung(PyNum(20), PyNum(2))),
     NewObj(ArgProgrammierung)}

InitPersistenz ==
    \E k \in 0..MaxSemester :
        \E shape \in Shapes(PersistModule, k, MaxGebaut) : Built(shape, 180)

\* Texts of the resource that saveData did not write: the document of main()'s
\* first module, with the members named in o left out.
Keep == [stg |-> {}, sem |-> {}, mod |-> {}, pr |-> {}]

DocPruefung(o) ==
    JsonObject([k \in {"note", "versuch"} \ o.pr |->
                  IF k = "note" THEN JsonNumber(23) ELSE JsonNumber(1)])

DocModul(o) ==
    JsonObject([k \in {"modulName", "ects", "status", "note", "pruefungen"} \ o.mod |->
                  CASE k = "modulName" -> JsonString("Mathe I")
                    [] k = "ects" -> JsonNumber(8)
                    [] k = "status" -> JsonString(StatusAbgeschlossen)
                    [] k = "note" -> JsonNumber(23)
                    [] k = "pruefungen" -> JsonArray(<<DocPruefung(o)>>)])

DocSemester(o) ==
    JsonObject([k \in {"semesterNummer", "startDatum", "endDatum", "module"} \ o.sem |->
                  CASE k = "semesterNummer" -> JsonNumber(1)
                    [] k = "startDatum" -> JsonString("2023-10-01")
                    [] k = "endDatum" -> JsonString("2024-03-31")
                    [] k = "module" -> JsonArray(<<DocModul(o)>>)])

DocStudiengang(o) ==
    JsonObject([k \in {"name", "gesamtECTS", "semester"} \ o.stg |->
                  CASE k = "name" -> JsonString("Angewandte KI")
                    [] k = "gesamtECTS" -> JsonNumber(180)
                    [] k = "semester" -> JsonArray(<<DocSemester(o)>>)])

OmitOne ==
    {[Keep EXCEPT !.stg = {k}] : k \in {"name", "gesamtECTS", "semester"}}
    \cup {[Keep EXCEPT !.sem = {k}] :
            k \in {"semesterNummer", "startDatum", "endDatum", "module"}}
    \cup {[Keep EXCEPT !.mod = {k}] :
            k \in {"modulName", "ects", "status", "note", "pruefungen"}}
    \cup {[Keep EXCEPT !.pr = {k}] : k \in {"note", "versuch"}}

OmitOptional ==
    [Keep EXCEPT !.sem = {"startDatum", "endDatum"}, !.mod = {"note"}]

\* A document whose "semester" member is a number.
DocSemesterZahl ==
    JsonObject([name |-> JsonString("Angewandte KI"), gesamtECTS |-> JsonNumber(180),
                semester |-> JsonNumber(5)])

ExternDocs ==
    {DocStudiengang(o) : o \in {Keep, OmitOptional} \cup OmitOne}
    \cup {JsonArray(<<>>), JsonArray(<<DocStudiengang(Keep)>>), JsonNumber(1), JsonNull,
          DocSemesterZahl}

ExternDateien ==
    {DateiFehlt, DateiGesperrt, Datei(JsonInvalid)} \cup {Datei(d) : d \in ExternDocs}

\* ----------------------------------------------------------- specifications

\* Modul objects alone: constructed, given attempts, rebuilt from dicts.
NextModul ==
    \/ \E a \in {ArgMathe, ArgProgrammierung} : NewModul(a)
    \/ \E m \in 1..MaxModul, p \in PruefArgs : AddPruefungsleistung(m, p)
    \/ \E d \in ExternModulDaten
                  \cup {Modul_to_dict(heapModul[i]) : i \in 1..Len(heapModul)} :
           ModulFromDict(d)

SpecModul == Init /\ [][NextModul]_vars

\* Semester objects and the modules added to and removed from them.
NextSemester ==
    \/ NewModul(ArgProgrammierung)
    \/ NewSemester(ArgSemester(Len(heapSemester) + 1))
    \/ \E s \in 1..MaxSemester, m \in 1..MaxModul : AddModul(s, m)
    \/ \E s \in 1..MaxSemester, m \in 1..MaxModul : RemoveModul(s, m)

SpecSemester == Init /\ [][NextSemester]_vars

\* The tree of Studiengang, Semester and Modul objects, and the metrics on it.
NextStudiengang ==
    \/ \E a \in {ArgProgrammierung, ArgOhneStatus} : NewModul(a)
    \/ \E m \in 1..MaxModul : AddPruefungsleistung(m, Pruefungsleistung(PyNum(23), PyNum(1)))
    \/ NewSemester(ArgSemester(Len(heapSemester) + 1))
    \/ \E s \in 1..MaxSemester, m \in 1..MaxModul : AddModul(s, m)
    \/ \E s \in 1..MaxSemester, m \in 1..MaxModul : RemoveModul(s, m)
    \/ \E s \in 1..MaxSemester : AddSemester(s)
    \/ GetNotendurchschnitt
    \/ GetFortschrittECTS

SpecStudiengang == Init /\ [][NextStudiengang]_vars

\* The metrics of a built Studiengang.
NextMetrik ==
    \/ GetNotendurchschnitt
    \/ GetFortschrittECTS
    \/ DisplayDashboard

SpecMetrik == InitMetrik /\ [][NextMetrik]_vars

\* Saving and loading a built Studiengang.
NextPersistenz ==
    \/ \E io \in {"ok", "ENOSPC"} : SaveData(io)
    \/ LoadData
    \/ \E f \in ExternDateien : EnvWrite(f)

SpecPersistenz == InitPersistenz /\ [][NextPersistenz]_vars

\* Every operation, from the start of main().
Next ==
    \/ NextModul
    \/ NextStudiengang
    \/ NextMetrik
    \/ NextPersistenz

Spec == Init /\ [][Next]_vars

\* ------------------------------------------------- what the claims speak of

\* The tree below a Studiengang object, with every reference followed.
View(s) ==
    [s EXCEPT !.semester =
        [i \in 1..Len(s.semester) |->
           LET sem == heapSemester[s.semester[i]]
           IN  [sem EXCEPT !.module =
                  [j \in 1..Len(sem.module) |-> heapModul[sem.module[j]]]]]]

\* All Modul objects of stg, semester by semester.
AlleModule == Besucht(stg.semester)

RECURSIVE SumOver(_, _)
SumOver(I, f) ==
    IF I = {} THEN 0
    ELSE LET i == CHOOSE x \in I : TRUE IN f[i] + SumOver(I \ {i}, f)

\* A status that is the completion keyword up to the case of its letters.
IstAbgeschlossen(status) ==
    /\ status.t = "str"
    /\ Len(status.v) = Len(Abgeschlossen)
    /\ \A k \in 1..Len(Abgeschlossen) :
          status.v[k] \in {Abgeschlossen[k], UpperChar(Abgeschlossen[k])}

SummeAbgeschlossen ==
    SumOver({i \in 1..Len(AlleModule) : IstAbgeschlossen(AlleModule[i].status)},
            [i \in 1..Len(AlleModule) |-> AlleModule[i].ects.v])

Benotet == {i \in 1..Len(AlleModule) : AlleModule[i].note.t = "number"}

SummeNoten == SumOver(Benotet, [i \in 1..Len(AlleModule) |-> AlleModule[i].note.v])

\* The same string in other letter case.
Gross(status) == PyStr([k \in 1..Len(status.v) |-> UpperChar(status.v[k])])
Klein(status) == PyStr([k \in 1..Len(status.v) |-> LowerChar(status.v[k])])
Gemischt(status) ==
    PyStr([k \in 1..Len(status.v) |->
             IF k % 2 = 1 THEN UpperChar(status.v[k]) ELSE LowerChar(status.v[k])])

\* ---------------------------------------------------------------------- C2

\* C2: getFortschrittECTS returns exactly the sum of ects over the modules of
\* all semesters whose status is "abgeschlossen" up to letter case; every other
\* module adds nothing, graded or not; and computing it with any one module's
\* status rewritten in another letter case gives the same number.
C2_EarnedCredits ==
    ret.op = "getFortschrittECTS" =>
        /\ ret.exc = NoExc
        /\ ret.val = PyNum(SummeAbgeschlossen)
        /\ LET mods == AlleModule
           IN  \A i \in 1..Len(mods) :
                 \A other \in {Gross(mods[i].status), Klein(mods[i].status),
                               Gemischt(mods[i].status)} :
                     Earned([mods EXCEPT ![i].status = other], 0) = Return(ret.val.v)

\* The credits of the example of main(): 8 and 6 for the completed modules,
\* written "Abgeschlossen" and "ABGESCHLOSSEN", none for a graded module that is
\* not completed.
C2_Witness ==
    /\ ret.op = "getFortschrittECTS"
    /\ ret.val = PyNum(14)
    /\ \E i \in 1..Len(AlleModule) : AlleModule[i].status = PyStr(StatusAbgeschlossen)
    /\ \E i \in 1..Len(AlleModule) : AlleModule[i].status = PyStr(StatusGROSS)
    /\ \E i \in 1..Len(AlleModule) :
          AlleModule[i].status = PyStr(StatusFast) /\ AlleModule[i].note # PyNone

\* ---------------------------------------------------------------------- C3

\* C3: getNotendurchschnitt returns the sum of the notes divided by their
\* number, over exactly the modules whose note is present, whatever their
\* status; without any such module it returns 0.0; it never raises.
C3_GradeAverage ==
    ret.op = "getNotendurchschnitt" =>
        /\ ret.exc = NoExc
        /\ ret.val.t = "float"
        /\ ret.val.den # 0
        /\ IF Benotet = {}
           THEN ret.val = Zero
           ELSE ret.val.num * Cardinality(Benotet) = SummeNoten * ret.val.den

\* A mean over two graded modules, one of them graded 0.0 and not completed,
\* beside an ungraded one.
C3_Witness ==
    /\ ret.op = "getNotendurchschnitt"
    /\ Cardinality(Benotet) = 2
    /\ Len(AlleModule) = 3
    /\ SummeNoten = 23
    /\ ret.val.num * 2 = 23 * ret.val.den

\* ---------------------------------------------------------------------- C6

\* C6: the percentage displayDashboard prints is earned / gesamtECTS * 100 when
\* gesamtECTS > 0 and 0 otherwise; with gesamtECTS = 0 it prints 0 and no
\* division by zero is reached.
C6_Progress ==
    ret.op = "displayDashboard" =>
        /\ ret.exc = NoExc
        /\ ret.out.earned_ects = PyNum(SummeAbgeschlossen)
        /\ LET p == ret.out.progress_percentage
           IN  IF stg.gesamtECTS.v > 0
               THEN /\ p.t = "float"
                    /\ p.den # 0
                    /\ p.num * stg.gesamtECTS.v = SummeAbgeschlossen * 100 * p.den
               ELSE p = PyNum(0)

\* A dashboard of a Studiengang with gesamtECTS = 0 and completed modules.
C6_Witness ==
    /\ ret.op = "displayDashboard"
    /\ ret.exc = NoExc
    /\ stg.gesamtECTS = PyNum(0)
    /\ SummeAbgeschlossen > 0
    /\ ret.out.progress_percentage = PyNum(0)

\* --------------------------------------------------- C1, C8, C9: documents

\* What saveData leaves in the resource when it succeeds for stg.
Gespeichert == PersistenceService_saveData(DateiFehlt, stg, "ok").datei

Has(x, k) == k \in DOMAIN x.members
Items(x, k) ==
    IF Has(x, k) /\ x.members[k].j = "array" THEN x.members[k].items ELSE <<>>

\* The objects of a document that stand for semesters and for modules.
DocSemesters(doc) == {Items(doc, "semester")[i] : i \in 1..Len(Items(doc, "semester"))}
DocModule(doc) ==
    UNION {{Items(x, "module")[i] : i \in 1..Len(Items(x, "module"))} :
             x \in {y \in DocSemesters(doc) : y.j = "object"}}
DocPruefungen(doc) ==
    UNION {{Items(x, "pruefungen")[i] : i \in 1..Len(Items(x, "pruefungen"))} :
             x \in {y \in DocModule(doc) : y.j = "object"}}

\* A required member is missing somewhere in the tree of the document.
PflichtFehlt(doc) ==
    \/ ~Has(doc, "name")
    \/ ~Has(doc, "gesamtECTS")
    \/ \E x \in DocSemesters(doc) : x.j = "object" /\ ~Has(x, "semesterNummer")
    \/ \E x \in DocModule(doc) :
          x.j = "object" /\ (~Has(x, "modulName") \/ ~Has(x, "ects") \/ ~Has(x, "status"))

\* A resource loadData cannot build a Studiengang from.
Defekt(f) ==
    \/ f.mode # "ok"
    \/ f.text.j = "invalid"
    \/ f.text.j # "object"
    \/ PflichtFehlt(f.text)

\* Every list member is an array of objects and no required member is missing.
Wohlgeformt(doc) ==
    /\ doc.j = "object"
    /\ ~PflichtFehlt(doc)
    /\ \A x \in DocSemesters(doc) \cup DocModule(doc) \cup DocPruefungen(doc) :
          x.j = "object"
    /\ \A x \in DocPruefungen(doc) : Has(x, "note") /\ Has(x, "versuch")
    /\ Has(doc, "semester") => doc.members.semester.j = "array"
    /\ \A x \in DocSemesters(doc) : Has(x, "module") => x.members.module.j = "array"
    /\ \A x \in DocModule(doc) : Has(x, "pruefungen") => x.members.pruefungen.j = "array"

OptionalFehlt(doc) ==
    \/ \E x \in DocSemesters(doc) : ~Has(x, "startDatum") \/ ~Has(x, "endDatum")
    \/ \E x \in DocModule(doc) : ~Has(x, "note")

\* The value of a member, None when the member is missing.
Member(x, k) == IF Has(x, k) THEN JsonDecode(x.members[k]) ELSE PyNone

ErwartetPruefung(x) ==
    [cls |-> "Pruefungsleistung", note |-> Member(x, "note"),
     versuch |-> Member(x, "versuch")]

ErwartetModul(x) ==
    [cls |-> "Modul", modulName |-> Member(x, "modulName"), ects |-> Member(x, "ects"),
     status |-> Member(x, "status"), note |-> Member(x, "note"),
     pruefungen |-> [i \in 1..Len(Items(x, "pruefungen")) |->
                       ErwartetPruefung(Items(x, "pruefungen")[i])]]

ErwartetSemester(x) ==
    [cls |-> "Semester", semesterNummer |-> Member(x, "semesterNummer"),
     startDatum |-> Member(x, "startDatum"), endDatum |-> Member(x, "endDatum"),
     module |-> [i \in 1..Len(Items(x, "module")) |-> ErwartetModul(Items(x, "module")[i])]]

\* The tree a well-formed document describes.
Erwartet(doc) ==
    [cls |-> "Studiengang", name |-> Member(doc, "name"),
     gesamtECTS |-> Member(doc, "gesamtECTS"),
     semester |-> [i \in 1..Len(Items(doc, "semester")) |->
                     ErwartetSemester(Items(doc, "semester")[i])]]

\* ---------------------------------------------------------------------- C1

\* C1: loading the resource that saveData wrote for a built Studiengang returns
\* a tree equal to it: the same name and gesamtECTS, the same semesters in the
\* same order, in each the same modules in the same order with the same
\* modulName, ects, status and note, and in each module the same attempts in
\* the same order.
C1_RoundTrip ==
    (ret.op = "loadData" /\ datei = Gespeichert) =>
        /\ ret.exc = NoExc
        /\ ret.val = View(stg)

\* A loaded copy of a Studiengang of two semesters with two modules in the
\* first, one of them with two attempts, one without note.
C1_Witness ==
    /\ ret.op = "loadData"
    /\ datei = Gespeichert
    /\ ret.val # PyNone
    /\ Len(ret.val.semester) = 2
    /\ Len(ret.val.semester[1].module) = 2
    /\ Len(ret.val.semester[1].module[1].pruefungen) = 2
    /\ ret.val.semester[1].module[2].note = PyNone
    /\ ret.val.semester[2].endDatum = PyNone

\* ---------------------------------------------------------------------- C8

\* C8: neither saveData nor loadData ends in an exception, whatever the state
\* of the resource and whether the device fails; and loadData returns None
\* when the resource is missing or cannot be opened, is not parseable, is no
\* object, or lacks name, gesamtECTS, semesterNummer, modulName, ects or status
\* anywhere in its tree.
C8_NoEscape ==
    /\ ret.op = "saveData" => ret.exc = NoExc /\ ret.val = PyNone
    /\ ret.op = "loadData" =>
          /\ ret.exc = NoExc
          /\ Defekt(datei) => ret.val = PyNone

\* A load of a document whose only module has no status.
C8_Witness ==
    /\ ret.op = "loadData"
    /\ datei = Datei(DocStudiengang([Keep EXCEPT !.mod = {"status"}]))
    /\ ret.exc = NoExc
    /\ ret.val = PyNone

\* ---------------------------------------------------------------------- C9

\* C9: loading a document that lacks startDatum or endDatum of a semester or
\* note of a module, and is well-formed otherwise, succeeds; the entity's field
\* is None and every other field and list is as the document gives it.
C9_OptionalFields ==
    (/\ ret.op = "loadData"
     /\ datei.mode = "ok"
     /\ Wohlgeformt(datei.text)
     /\ OptionalFehlt(datei.text)) =>
        /\ ret.exc = NoExc
        /\ ret.val = Erwartet(datei.text)

\* A load of a document without startDatum: the semester has startDatum None
\* and its endDatum and module as given.
C9_Witness ==
    /\ ret.op = "loadData"
    /\ datei = Datei(DocStudiengang([Keep EXCEPT !.sem = {"startDatum"}]))
    /\ ret.val # PyNone
    /\ ret.val.semester[1].startDatum = PyNone
    /\ ret.val.semester[1].endDatum = PyStr("2024-03-31")
    /\ Len(ret.val.semester[1].module) = 1

\* ---------------------------------------------------------------------- C4

\* C4: addPruefungsleistung(p) sets the module's note to p's note and makes p
\* the last attempt, whatever the note was before (None, equal, better or
\* worse) and whatever attempts there were; the earlier attempts stay as they
\* were, in their order.
C4_AddOverwrites ==
    [][\A m \in 1..MaxModul, p \in PruefArgs :
          AddPruefungsleistung(m, p) =>
              LET old == heapModul[m].pruefungen
                  new == heapModul'[m].pruefungen
              IN  /\ heapModul'[m].note = p.note
                  /\ Len(new) = Len(old) + 1
                  /\ new[Len(new)] = p
                  /\ \A i \in 1..Len(old) : new[i] = old[i]]_vars

\* A module whose note 2.0 was overwritten by a second, worse attempt of 2.3.
C4_Witness ==
    /\ ret.op = "addPruefungsleistung"
    /\ \E m \in 1..Len(heapModul) :
          /\ heapModul[m].pruefungen = <<Pruefungsleistung(PyNum(20), PyNum(2)),
                                         Pruefungsleistung(PyNum(23), PyNum(1))>>
          /\ heapModul[m].note = PyNum(23)

\* ---------------------------------------------------------------------- C5

\* A module with attempts has the note of its last attempt.
ModInv(m) == Len(m.pruefungen) > 0 => m.note = m.pruefungen[Len(m.pruefungen)].note

\* The same of the dict a module is rebuilt from.
DatenStimmig(d) ==
    LET ps == IF "pruefungen" \in DOMAIN d.v THEN d.v.pruefungen.v ELSE <<>>
    IN  Len(ps) > 0 =>
            /\ "note" \in DOMAIN d.v
            /\ "note" \in DOMAIN ps[Len(ps)].v
            /\ d.v.note = ps[Len(ps)].v.note

\* C5 as claimed: in every state reachable by Modul construction,
\* addPruefungsleistung and Modul.from_dict, every module with at least one
\* attempt has the note of its last attempt.
C5_Original == \A i \in 1..Len(heapModul) : ModInv(heapModul[i])

\* C5 as amended: every module with at least one attempt has the note of its
\* last attempt, unless it is as Modul.from_dict rebuilt it from a dict whose
\* note is not the note of the last entry of its pruefungen; and to_dict of a
\* module that has the note of its last attempt never makes such a dict.
C5_Amended ==
    /\ \A i \in 1..Len(heapModul) :
          \/ ModInv(heapModul[i])
          \/ \E d \in ExternModulDaten :
                ~DatenStimmig(d) /\ Modul_from_dict(d) = Return(heapModul[i])
    /\ \A i \in 1..Len(heapModul) :
          ModInv(heapModul[i]) => DatenStimmig(Modul_to_dict(heapModul[i]))
    /\ \A i \in 1..Len(heapModul) :
          LET r == Modul_from_dict(Modul_to_dict(heapModul[i]))
          IN  ModInv(heapModul[i]) => r.exc = NoExc /\ ModInv(r.val)

\* A module with two attempts and the module Modul.from_dict rebuilt from its
\* to_dict, both with the note of the second attempt.
C5_Witness ==
    /\ ret.op = "Modul.from_dict"
    /\ ret.exc = NoExc
    /\ Len(heapModul) = 2
    /\ heapModul[2] = heapModul[1]
    /\ Len(heapModul[2].pruefungen) = 2
    /\ heapModul[2].note = heapModul[2].pruefungen[2].note

\* ---------------------------------------------------------------------- C7

C10_NeverFails ==
    ret.op \in {"Modul", "Semester", "addSemester", "addModul", "removeModul",
                "addPruefungsleistung", "getNotendurchschnitt", "getFortschrittECTS"}
        => ret.exc = NoExc
====
